---------------------------- MODULE Spec2Model ----------------------------
(***************************************************************************)
(* pvxs SockAddr (src/src/util.cpp): the socket address value, its text    *)
(* parser SockAddr::setAddress, its formatter operator<<, the family       *)
(* operations (setPort, map4to6, isAny/isLO/isMCast, any, loopback) and    *)
(* the strict integer parser parseTo<uint64_t> the port text goes through. *)
(*                                                                         *)
(* Text is a sequence of one-character strings.  A C string is the text up *)
(* to (not including) its terminating NUL; a null pointer is position 0.   *)
(***************************************************************************)
EXTENDS Integers, Sequences, FiniteSets, TLC

(***************************************************************************)
(* Platform constants of the socket API the code is compiled against.      *)
(***************************************************************************)
AF_UNSPEC == 0
AF_INET == 2
AF_INET6 == 10
\* an address family the socket API knows and SockAddr does not support
AF_OTHER == AF_INET6 + 7
INET_ADDRSTRLEN == 16
INET6_ADDRSTRLEN == 46
\* char scratch[INET6_ADDRSTRLEN+1]
SizeofScratch == INET6_ADDRSTRLEN + 1

(***************************************************************************)
(* Characters.                                                             *)
(***************************************************************************)
DecChars == <<"0", "1", "2", "3", "4", "5", "6", "7", "8", "9">>
HexLower == <<"0", "1", "2", "3", "4", "5", "6", "7", "8", "9",
              "a", "b", "c", "d", "e", "f">>

IsDigit(c) == c \in {"0", "1", "2", "3", "4", "5", "6", "7", "8", "9"}
IsXDigit(c) ==
    \/ IsDigit(c)
    \/ c \in {"a", "b", "c", "d", "e", "f", "A", "B", "C", "D", "E", "F"}
\* isspace() in the C locale
IsSpace(c) == c \in {" ", "\t", "\n", "\r"}

\* the value of a digit character (hexadecimal digits included)
DigitVal(c) ==
    CASE c = "0" -> 0 [] c = "1" -> 1 [] c = "2" -> 2 [] c = "3" -> 3
      [] c = "4" -> 4 [] c = "5" -> 5 [] c = "6" -> 6 [] c = "7" -> 7
      [] c = "8" -> 8 [] c = "9" -> 9
      [] c \in {"a", "A"} -> 10 [] c \in {"b", "B"} -> 11
      [] c \in {"c", "C"} -> 12 [] c \in {"d", "D"} -> 13
      [] c \in {"e", "E"} -> 14 [] c \in {"f", "F"} -> 15

\* the first position from i on where s holds c, 0 when there is none
RECURSIVE ScanFwd(_, _, _)
ScanFwd(s, c, i) ==
    IF i > Len(s) THEN 0 ELSE IF s[i] = c THEN i ELSE ScanFwd(s, c, i + 1)

\* the last position up to i where s holds c, 0 when there is none
RECURSIVE ScanBack(_, _, _)
ScanBack(s, c, i) ==
    IF i < 1 THEN 0 ELSE IF s[i] = c THEN i ELSE ScanBack(s, c, i - 1)

\* strchr(s, c): position of the first c in s, 0 (null) when there is none
strchr(s, c) == ScanFwd(s, c, 1)

\* strrchr(s, c): position of the last c in s, 0 (null) when there is none
strrchr(s, c) == ScanBack(s, c, Len(s))

\* the one element of a one-element set: Only({e(x) : x \in {v}}) is e(v),
\* with v computed once
Only(S) == CHOOSE x \in S : TRUE

\* the C string that starts at position p of s
StrFrom(s, p) == SubSeq(s, p, Len(s))

(***************************************************************************)
(* Decimal output of an unsigned number (ostream << unsigned).             *)
(***************************************************************************)
RECURSIVE FmtDec(_)
FmtDec(n) ==
    IF n < 10 THEN <<DecChars[n + 1]>>
    ELSE FmtDec(n \div 10) \o <<DecChars[(n % 10) + 1]>>

\* lower-case hexadecimal without leading zeros (the "%x" of inet_ntop)
RECURSIVE FmtHex(_)
FmtHex(n) ==
    IF n < 16 THEN <<HexLower[n + 1]>>
    ELSE FmtHex(n \div 16) \o <<HexLower[(n % 16) + 1]>>

(***************************************************************************)
(* A uint64_t is four 16-bit limbs, least significant first, so that       *)
(* values beyond the model checker's integers keep their width.            *)
(***************************************************************************)
Limb == 2^16
U64Zero == <<0, 0, 0, 0>>

\* v * base + d as [val, carry]: carry # 0 means the result left 64 bits
U64MulAdd(v, base, d) ==
    LET t1 == v[1] * base + d
        t2 == v[2] * base + (t1 \div Limb)
        t3 == v[3] * base + (t2 \div Limb)
        t4 == v[4] * base + (t3 \div Limb)
    IN [val |-> <<t1 % Limb, t2 % Limb, t3 % Limb, t4 % Limb>>,
        carry |-> t4 \div Limb]

\* two's complement negation in 64 bits
U64Neg(v) ==
    LET n1 == (Limb - 1 - v[1]) + 1
        n2 == (Limb - 1 - v[2]) + (n1 \div Limb)
        n3 == (Limb - 1 - v[3]) + (n2 \div Limb)
        n4 == (Limb - 1 - v[4]) + (n3 \div Limb)
    IN <<n1 % Limb, n2 % Limb, n3 % Limb, n4 % Limb>>

\* the implicit conversion uint64_t -> unsigned short at a call of setPort
ToUShort(v) == v[1]

\* whether a uint64_t fits an unsigned short
FitsUShort(v) == v[2] = 0 /\ v[3] = 0 /\ v[4] = 0

(***************************************************************************)
(* std::stoull(s, &idx, 0), i.e. strtoull with base 0.                     *)
(* Result: [status, val, idx] with status "ok", "invalid_argument" (no     *)
(* conversion) or "out_of_range"; idx counts the characters consumed.      *)
(***************************************************************************)
RECURSIVE SkipSpace(_, _)
SkipSpace(s, i) ==
    IF i <= Len(s) /\ IsSpace(s[i]) THEN SkipSpace(s, i + 1) ELSE i

\* consume the digits of the base from position i on: [val, ovf, next]
RECURSIVE ScanDigits(_, _, _, _, _)
ScanDigits(s, i, base, acc, ovf) ==
    IF i <= Len(s) /\ IsXDigit(s[i]) /\ DigitVal(s[i]) < base
    THEN Only({ScanDigits(s, i + 1, base, r.val, ovf \/ r.carry # 0) :
                 r \in {U64MulAdd(acc, base, DigitVal(s[i]))}})
    ELSE [val |-> acc, ovf |-> ovf, next |-> i]

\* the digits are scanned from position i2 on, in the base found
StoullDigits(s, neg, i2, d) ==
    IF d.next = i2 THEN [status |-> "invalid_argument", val |-> U64Zero, idx |-> 0]
    ELSE IF d.ovf THEN [status |-> "out_of_range", val |-> U64Zero, idx |-> 0]
    ELSE [status |-> "ok",
          val |-> IF neg THEN U64Neg(d.val) ELSE d.val,
          idx |-> d.next - 1]

\* i1: the position after the white space and the sign
StoullBase(s, neg, i1) ==
    LET zero == i1 <= Len(s) /\ s[i1] = "0"
        hex == zero /\ i1 + 2 <= Len(s) /\ s[i1 + 1] \in {"x", "X"}
                    /\ IsXDigit(s[i1 + 2])
        base == IF hex THEN 16 ELSE IF zero THEN 8 ELSE 10
        i2 == IF hex THEN i1 + 2 ELSE i1
    IN Only({StoullDigits(s, neg, i2, d) :
               d \in {ScanDigits(s, i2, base, U64Zero, FALSE)}})

stoull(s) ==
    Only({StoullBase(s, i0 <= Len(s) /\ s[i0] = "-",
                     IF i0 <= Len(s) /\ s[i0] \in {"+", "-"} THEN i0 + 1 ELSE i0) :
            i0 \in {SkipSpace(s, 1)}})

(***************************************************************************)
(* parseTo<uint64_t>(s): [err, val]; err is "none" or "NoConvert".         *)
(***************************************************************************)
ParseToTail(s, r) ==
    IF r.status # "ok" THEN [err |-> "NoConvert", val |-> U64Zero]
    ELSE IF SkipSpace(s, r.idx + 1) - 1 < Len(s)
         THEN [err |-> "NoConvert", val |-> U64Zero]
         ELSE [err |-> "none", val |-> r.val]

parseTo_uint64(s) == Only({ParseToTail(s, r) : r \in {stoull(s)}})

(***************************************************************************)
(* std::stoll(s, &idx, 0), i.e. strtoll with base 0: as stoull, but the    *)
(* magnitude has to fit a long long.  val is the two's complement of the   *)
(* result in the four limbs.                                               *)
(***************************************************************************)
StollDigits(s, neg, i2, d) ==
    IF d.next = i2 THEN [status |-> "invalid_argument", val |-> U64Zero, idx |-> 0]
    ELSE IF d.ovf \/ (/\ d.val[4] >= Limb \div 2
                      /\ ~(neg /\ d.val = <<0, 0, 0, Limb \div 2>>))
    THEN [status |-> "out_of_range", val |-> U64Zero, idx |-> 0]
    ELSE [status |-> "ok",
          val |-> IF neg THEN U64Neg(d.val) ELSE d.val,
          idx |-> d.next - 1]

StollBase(s, neg, i1) ==
    LET zero == i1 <= Len(s) /\ s[i1] = "0"
        hex == zero /\ i1 + 2 <= Len(s) /\ s[i1 + 1] \in {"x", "X"}
                    /\ IsXDigit(s[i1 + 2])
        base == IF hex THEN 16 ELSE IF zero THEN 8 ELSE 10
        i2 == IF hex THEN i1 + 2 ELSE i1
    IN Only({StollDigits(s, neg, i2, d) :
               d \in {ScanDigits(s, i2, base, U64Zero, FALSE)}})

stoll(s) ==
    Only({StollBase(s, i0 <= Len(s) /\ s[i0] = "-",
                    IF i0 <= Len(s) /\ s[i0] \in {"+", "-"} THEN i0 + 1 ELSE i0) :
            i0 \in {SkipSpace(s, 1)}})

(***************************************************************************)
(* parseTo<int64_t>(s): [err, val].                                        *)
(***************************************************************************)
parseTo_int64(s) == Only({ParseToTail(s, r) : r \in {stoll(s)}})

(***************************************************************************)
(* std::stod(s, &idx), i.e. strtod, for decimal numerals: white space, a   *)
(* sign, digits with an optional point, an optional exponent that is read  *)
(* only when it has a digit.  The double is [neg, mant, exp] for           *)
(* (-1)^neg * mant * 10^exp with mant free of trailing zeros; a magnitude  *)
(* of more than 309 or less than -323 decimal places is out of range.      *)
(***************************************************************************)
RECURSIVE ScanDec(_, _)
ScanDec(s, i) == IF i <= Len(s) /\ IsDigit(s[i]) THEN ScanDec(s, i + 1) ELSE i

RECURSIVE DigitsValue(_)
DigitsValue(t) ==
    IF Len(t) = 0 THEN 0
    ELSE 10 * DigitsValue(SubSeq(t, 1, Len(t) - 1)) + DigitVal(t[Len(t)])

RECURSIVE NormDec(_, _, _)
NormDec(neg, m, e) ==
    IF m = 0 THEN [neg |-> neg, mant |-> 0, exp |-> 0]
    ELSE IF m % 10 = 0 THEN NormDec(neg, m \div 10, e + 1)
    ELSE [neg |-> neg, mant |-> m, exp |-> e]

DblZero == [neg |-> FALSE, mant |-> 0, exp |-> 0]

\* mant * 10^e, read up to position last
StodRange(neg, mant, e, lastpos) ==
    IF mant # 0 /\ (Len(FmtDec(mant)) + e > 309 \/ Len(FmtDec(mant)) + e < 0 - 323)
    THEN [status |-> "out_of_range", val |-> DblZero, idx |-> 0]
    ELSE [status |-> "ok", val |-> NormDec(neg, mant, e), idx |-> lastpos]

\* the exponent, from position ie (the one after the mantissa) on
StodExp(s, neg, mant, nfrac, ie) ==
    LET ise == ie <= Len(s) /\ s[ie] \in {"e", "E"}
        j0 == ie + 1
        eneg == ise /\ j0 <= Len(s) /\ s[j0] = "-"
        j1 == IF ise /\ j0 <= Len(s) /\ s[j0] \in {"+", "-"} THEN j0 + 1 ELSE j0
        j2 == IF ise THEN ScanDec(s, j1) ELSE j1
    IN IF ise /\ j2 > j1
       THEN Only({StodRange(neg, mant, (IF eneg THEN 0 - ev ELSE ev) - nfrac, j2 - 1) :
                    ev \in {DigitsValue(SubSeq(s, j1, j2 - 1))}})
       ELSE StodRange(neg, mant, 0 - nfrac, ie - 1)

\* i1: the position after the white space and the sign
StodMant(s, neg, i1) ==
    LET i2 == ScanDec(s, i1)
        dot == i2 <= Len(s) /\ s[i2] = "."
        i3 == IF dot THEN ScanDec(s, i2 + 1) ELSE i2
        nfrac == IF dot THEN i3 - (i2 + 1) ELSE 0
    IN IF (i2 - i1) + nfrac = 0
       THEN [status |-> "invalid_argument", val |-> DblZero, idx |-> 0]
       ELSE Only({StodExp(s, neg, m, nfrac, i3) :
                    m \in {DigitsValue(SubSeq(s, i1, i2 - 1)
                                       \o SubSeq(s, i2 + 1, i3 - 1))}})

stod(s) ==
    Only({StodMant(s, i0 <= Len(s) /\ s[i0] = "-",
                   IF i0 <= Len(s) /\ s[i0] \in {"+", "-"} THEN i0 + 1 ELSE i0) :
            i0 \in {SkipSpace(s, 1)}})

(***************************************************************************)
(* parseTo<double>(s): [err, val].  After the white space that follows the *)
(* number, the code builds a NoConvert for what is left and does not throw *)
(* it: the number is returned.                                             *)
(***************************************************************************)
ParseToDoubleTail(s, r) ==
    IF r.status # "ok" THEN [err |-> "NoConvert", val |-> DblZero]
    ELSE [err |-> "none", val |-> r.val]

parseTo_double(s) == Only({ParseToDoubleTail(s, r) : r \in {stod(s)}})

(***************************************************************************)
(* evutil_inet_pton(AF_INET, src, dst): the presentation-to-binary         *)
(* converter setAddress calls.  [ok, bytes]: the four address bytes in     *)
(* network order.  Strict dotted quad: four decimal fields of 0..255, no   *)
(* leading zero, nothing else.                                             *)
(***************************************************************************)
RECURSIVE Pton4Scan(_, _, _, _, _)
Pton4Scan(s, i, octs, cur, saw) ==
    IF i > Len(s)
    THEN IF saw /\ Len(octs) = 3
         THEN [ok |-> TRUE, bytes |-> Append(octs, cur)]
         ELSE [ok |-> FALSE, bytes |-> <<0, 0, 0, 0>>]
    ELSE IF IsDigit(s[i])
         THEN LET new == cur * 10 + DigitVal(s[i])
              IN IF (saw /\ cur = 0) \/ new > 255 \/ (~saw /\ Len(octs) >= 4)
                 THEN [ok |-> FALSE, bytes |-> <<0, 0, 0, 0>>]
                 ELSE Pton4Scan(s, i + 1, octs, new, TRUE)
         ELSE IF s[i] = "." /\ saw /\ Len(octs) < 3
              THEN Pton4Scan(s, i + 1, Append(octs, cur), 0, FALSE)
              ELSE [ok |-> FALSE, bytes |-> <<0, 0, 0, 0>>]

inet_pton4(s) == Pton4Scan(s, 1, <<>>, 0, FALSE)

Zeros(n) == [i \in 1..n |-> 0]
Bad6 == [ok |-> FALSE, bytes |-> Zeros(16)]

\* the end of the scan: store a pending group, expand the "::"
Pton6Finish(tp0, colonp, saw, val) ==
    LET tp == IF saw > 0 THEN tp0 \o <<val \div 256, val % 256>> ELSE tp0
    IN IF Len(tp) > 16 THEN Bad6
       ELSE IF colonp >= 0
            THEN IF Len(tp) = 16 THEN Bad6
                 ELSE [ok |-> TRUE,
                       bytes |-> SubSeq(tp, 1, colonp) \o Zeros(16 - Len(tp))
                                 \o SubSeq(tp, colonp + 1, Len(tp))]
            ELSE IF Len(tp) = 16 THEN [ok |-> TRUE, bytes |-> tp] ELSE Bad6

(***************************************************************************)
(* evutil_inet_pton(AF_INET6, src, dst): groups of up to four hexadecimal  *)
(* digits separated by ':', one "::" standing for a run of zero groups, an *)
(* optional dotted quad as the last 32 bits.  tp: the bytes written so     *)
(* far; colonp: where "::" was seen (-1: nowhere); curtok: start of the    *)
(* current group; saw: its digits so far; val: its value.                  *)
(***************************************************************************)
RECURSIVE Pton6Scan(_, _, _, _, _, _, _)
Pton6Scan(s, i, tp, colonp, curtok, saw, val) ==
    IF i > Len(s) THEN Pton6Finish(tp, colonp, saw, val)
    ELSE IF IsXDigit(s[i])
         THEN IF saw + 1 > 4 THEN Bad6
              ELSE Pton6Scan(s, i + 1, tp, colonp, curtok, saw + 1,
                             val * 16 + DigitVal(s[i]))
    ELSE IF s[i] = ":"
         THEN IF saw = 0
              THEN IF colonp >= 0 THEN Bad6
                   ELSE Pton6Scan(s, i + 1, tp, Len(tp), i + 1, 0, 0)
              ELSE IF i + 1 > Len(s) \/ Len(tp) + 2 > 16 THEN Bad6
                   ELSE Pton6Scan(s, i + 1, tp \o <<val \div 256, val % 256>>,
                                  colonp, i + 1, 0, 0)
    ELSE IF s[i] = "." /\ Len(tp) + 4 <= 16
         THEN Only({IF q.ok THEN Pton6Finish(tp \o q.bytes, colonp, 0, 0) ELSE Bad6 :
                      q \in {inet_pton4(StrFrom(s, curtok))}})
    ELSE Bad6

inet_pton6(s) ==
    IF Len(s) >= 1 /\ s[1] = ":"
    THEN IF Len(s) >= 2 /\ s[2] = ":"
         THEN Pton6Scan(s, 2, <<>>, -1, 2, 0, 0)
         ELSE Bad6
    ELSE Pton6Scan(s, 1, <<>>, -1, 1, 0, 0)

\* evutil_inet_pton(af, src, dst) <= 0 is its failure
evutil_inet_pton(af, src) ==
    IF af = AF_INET THEN inet_pton4(src)
    ELSE IF af = AF_INET6 THEN inet_pton6(src)
    ELSE Bad6

(***************************************************************************)
(* evutil_inet_ntop: the binary-to-presentation converter operator<<       *)
(* calls.  [ok, text]; it fails when the text and its NUL do not fit the   *)
(* buffer of `size` bytes, or when the platform's converter refuses        *)
(* (envfail); a failed call leaves the buffer as it was.                   *)
(***************************************************************************)
inet_ntop4(b) ==
    FmtDec(b[1]) \o <<".">> \o FmtDec(b[2]) \o <<".">> \o FmtDec(b[3])
        \o <<".">> \o FmtDec(b[4])

Words6(b) == [i \in 1..8 |-> b[2 * i - 1] * 256 + b[2 * i]]

\* the length of the run of zero words that starts at word i (1-based)
RECURSIVE ZeroRun(_, _)
ZeroRun(w, i) == IF i <= 8 /\ w[i] = 0 THEN 1 + ZeroRun(w, i + 1) ELSE 0

\* the leftmost longest run of at least two zero words: [base, len], base 0 if none
BestRun(w) ==
    LET starts == {i \in 1..8 : ZeroRun(w, i) >= 2 /\ (i = 1 \/ w[i - 1] # 0)}
    IN IF starts = {} THEN [base |-> 0, len |-> 0]
       ELSE LET b == CHOOSE i \in starts :
                        \A j \in starts :
                            \/ ZeroRun(w, i) > ZeroRun(w, j)
                            \/ (ZeroRun(w, i) = ZeroRun(w, j) /\ i <= j)
            IN [base |-> b, len |-> ZeroRun(w, b)]

RECURSIVE Ntop6Emit(_, _, _, _)
Ntop6Emit(b, w, best, i) ==
    IF i > 8
    THEN IF best.base # 0 /\ best.base + best.len = 9 THEN <<":">> ELSE <<>>
    ELSE IF best.base # 0 /\ i >= best.base /\ i < best.base + best.len
         THEN (IF i = best.base THEN <<":">> ELSE <<>>)
              \o Ntop6Emit(b, w, best, i + 1)
         ELSE (IF i # 1 THEN <<":">> ELSE <<>>)
              \o (IF /\ i = 7
                     /\ best.base = 1
                     /\ \/ best.len = 6
                        \/ (best.len = 7 /\ w[8] # 1)
                        \/ (best.len = 5 /\ w[6] = 65535)
                  THEN inet_ntop4(SubSeq(b, 13, 16))
                  ELSE FmtHex(w[i]) \o Ntop6Emit(b, w, best, i + 1))

inet_ntop6(b) ==
    Only({Ntop6Emit(b, w, best, 1) : w \in {Words6(b)}, best \in {BestRun(Words6(b))}})

evutil_inet_ntop(af, src, size, envfail) ==
    IF envfail \/ (af # AF_INET /\ af # AF_INET6)
    THEN [ok |-> FALSE, text |-> <<>>]
    ELSE Only({IF Len(text) + 1 > size THEN [ok |-> FALSE, text |-> <<>>]
               ELSE [ok |-> TRUE, text |-> text] :
                 text \in {IF af = AF_INET THEN inet_ntop4(src) ELSE inet_ntop6(src)}})

(***************************************************************************)
(* SockAddr: the value.  `store` is a union of sockaddr, sockaddr_in and   *)
(* sockaddr_in6; sin_port and sin6_port are the same two bytes (`port`,    *)
(* kept in host order here, htons/ntohs being inverse of each other).      *)
(* sin_addr is read only while the family is AF_INET and sin6_addr and     *)
(* sin6_scope_id only while it is AF_INET6, so the bytes the union         *)
(* overlays (sin6_flowinfo, sin_zero) are not kept.                        *)
(***************************************************************************)
\* store{}: the zeroed union
ZeroStore ==
    [family |-> AF_UNSPEC, port |-> 0, sin_addr |-> Zeros(4),
     sin6_addr |-> Zeros(16), scope_id |-> 0]

\* a result of an operation that may throw: err "none" or the exception's type
Ok(v) == [err |-> "none", why |-> "", val |-> v]
Throw(e, why, v) == [err |-> e, why |-> why, val |-> v]

\* SockAddr::SockAddr(int af)
SockAddr_af(af) ==
    IF af # AF_INET /\ af # AF_INET6 /\ af # AF_UNSPEC
    THEN Throw("invalid_argument", "Unsupported address family", ZeroStore)
    ELSE Ok([ZeroStore EXCEPT !.family = af])

\* SockAddr::family() and the private accessor it reads
family(self) == self.family

\* SockAddr::port()
port(self) ==
    IF self.family = AF_INET \/ self.family = AF_INET6 THEN self.port ELSE 0

\* (a setPort that knows IPv4 only)
setPort_v4_only(self, p) ==
    IF self.family = AF_INET THEN Ok([self EXCEPT !.port = p])
    ELSE IF self.family = AF_INET6 THEN Ok(self)
    ELSE Throw("logic_error", "SockAddr: set family before port", self)

\* (a setPort that takes an unspecified value for one with a family)
setPort_any_family(self, p) ==
    IF self.family = AF_INET \/ self.family = AF_INET6 \/ self.family = AF_UNSPEC
    THEN Ok([self EXCEPT !.port = p])
    ELSE Throw("logic_error", "SockAddr: set family before port", self)

\* SockAddr::setPort(unsigned short port)
setPort(self, p) ==
    IF self.family = AF_INET \/ self.family = AF_INET6
    THEN Ok([self EXCEPT !.port = p])
    ELSE Throw("logic_error", "SockAddr: set family before port", self)

(***************************************************************************)
(* The first half of SockAddr::setAddress: which part of `name` is the     *)
(* address text, which the port text, and the family.                      *)
(* [err, why, family, addr, port]: port is the position in name where the  *)
(* port text starts, 0 for nullptr, -1 for a pointer into nothing.         *)
(* nullgt is what `lastc > closeb` yields when lastc is null (comparing a  *)
(* null pointer for order is unspecified).                                 *)
(***************************************************************************)
\* size_t(d) >= sizeof(scratch): a negative difference wraps to a huge size_t
TooLong(d) == d < 0 \/ d >= SizeofScratch

Split(e, why, af, addr, p) ==
    [err |-> e, why |-> why, family |-> af, addr |-> addr, port |-> p]

PtrGreater(lastc, closeb, nullgt) ==
    IF lastc = 0 THEN nullgt ELSE lastc > closeb

\* (the branches with the bracket check after the ones that count colons)
SplitAt_colons_first(name, firstc, lastc, openb, closeb, nullgt) ==
    IF firstc = 0 /\ openb = 0
    THEN Split("none", "", AF_INET, name, 0)
    ELSE IF firstc # 0 /\ firstc = lastc /\ openb = 0
    THEN Split("none", "", AF_INET, SubSeq(name, 1, firstc - 1), lastc + 1)
    ELSE IF firstc # 0 /\ firstc # lastc /\ openb = 0
    THEN Split("none", "", AF_INET6, name, 0)
    ELSE IF closeb = 0
    THEN Split("runtime_error", "IPv6 with mismatched brackets", AF_UNSPEC, <<>>, 0)
    ELSE IF TooLong(closeb - openb - 1)
    THEN Split("runtime_error", "IPv6 address too long", AF_UNSPEC, <<>>, 0)
    ELSE Split("none", "", AF_INET6, SubSeq(name, openb + 1, closeb - 1),
               IF PtrGreater(lastc, closeb, nullgt)
               THEN (IF lastc = 0 THEN -1 ELSE lastc + 1)
               ELSE 0)

\* the branches of setAddress, given the four positions it looks up first
SplitAt(name, firstc, lastc, openb, closeb, nullgt) ==
    IF (openb = 0) # (closeb = 0)
    THEN Split("runtime_error", "IPv6 with mismatched brackets", AF_UNSPEC, <<>>, 0)
    ELSE IF firstc = 0 /\ openb = 0
    THEN Split("none", "", AF_INET, name, 0)
    ELSE IF firstc # 0 /\ firstc = lastc /\ openb = 0
    THEN IF TooLong(firstc - 1)
         THEN Split("runtime_error", "IPv4 address too long", AF_UNSPEC, <<>>, 0)
         ELSE Split("none", "", AF_INET, SubSeq(name, 1, firstc - 1), lastc + 1)
    ELSE IF firstc # 0 /\ firstc # lastc /\ openb = 0
    THEN Split("none", "", AF_INET6, name, 0)
    ELSE IF openb # 0
    THEN IF TooLong(closeb - openb - 1)
         THEN Split("runtime_error", "IPv6 address too long", AF_UNSPEC, <<>>, 0)
         ELSE Split("none", "", AF_INET6, SubSeq(name, openb + 1, closeb - 1),
                    IF PtrGreater(lastc, closeb, nullgt)
                    THEN (IF lastc = 0 THEN -1 ELSE lastc + 1)
                    ELSE 0)
    ELSE Split("runtime_error", "Invalid IP address form", AF_UNSPEC, <<>>, 0)

splitAddress(name, nullgt) ==
    Only({SplitAt(name, firstc, lastc, openb, closeb, nullgt) :
            firstc \in {strchr(name, ":")}, lastc \in {strrchr(name, ":")},
            openb \in {strchr(name, "[")}, closeb \in {strrchr(name, "]")}})

(***************************************************************************)
(* SockAddr::setAddress(const char *name, unsigned short defport), up to   *)
(* its last statement: the local `temp` it builds.                         *)
(* [err, why, val, pton]: val is temp, pton whether the address converter  *)
(* was called.  "crash" stands for reading the port text through a pointer *)
(* into nothing.                                                           *)
(***************************************************************************)
SetRes(e, why, v, pton) == [err |-> e, why |-> why, val |-> v, pton |-> pton]

\* temp with the family set and the converted address stored through `sockaddr`
WithAddr(af, bytes) ==
    IF af = AF_INET
    THEN [ZeroStore EXCEPT !.family = AF_INET, !.sin_addr = bytes]
    ELSE [ZeroStore EXCEPT !.family = AF_INET6, !.sin6_addr = bytes]

\* (a port argument where a non-zero default overrides the text)
portArg_default_wins(name, sp, defport) ==
    IF sp.port # 0 /\ defport = 0
    THEN Only({[err |-> r.err, p |-> ToUShort(r.val)] :
                 r \in {parseTo_uint64(StrFrom(name, sp.port))}})
    ELSE [err |-> "none", p |-> defport]

\* the port setAddress hands to temp.setPort: [err, p]
portArg(name, sp, defport) ==
    IF sp.port # 0
    THEN Only({[err |-> r.err, p |-> ToUShort(r.val)] :
                 r \in {parseTo_uint64(StrFrom(name, sp.port))}})
    ELSE [err |-> "none", p |-> defport]

\* from the port on: temp.setPort(...)
TempPort(sp, cv, pa) ==
    IF pa.err # "none"
    THEN SetRes(pa.err, "port", ZeroStore, TRUE)
    ELSE SetRes("none", "", setPort(WithAddr(sp.family, cv.bytes), pa.p).val, TRUE)

\* from the address conversion on
TempAddr(name, defport, sp, cv) ==
    IF ~cv.ok
    THEN SetRes("runtime_error", "Not a valid IP address", ZeroStore, TRUE)
    ELSE IF sp.port = -1
    THEN SetRes("crash", "wild port pointer", ZeroStore, TRUE)
    ELSE Only({TempPort(sp, cv, pa) : pa \in {portArg(name, sp, defport)}})

TempSplit(name, defport, sp) ==
    IF sp.err # "none" THEN SetRes(sp.err, sp.why, ZeroStore, FALSE)
    ELSE Only({TempAddr(name, defport, sp, cv) :
                 cv \in {evutil_inet_pton(sp.family, sp.addr)}})

buildTemp(name, defport, nullgt) ==
    Only({TempSplit(name, defport, sp) : sp \in {splitAddress(name, nullgt)}})

\* (a setAddress that assigns temp whatever happened)
setAddress_assigns_anyway(self, name, defport, nullgt) ==
    buildTemp(name, defport, nullgt)

(***************************************************************************)
(* SockAddr::setAddress: a throw leaves the object alone, else the object  *)
(* is assigned temp.  [err, why, val, pton]: val is the object after the   *)
(* call.                                                                   *)
(***************************************************************************)
setAddress(self, name, defport, nullgt) ==
    Only({IF t.err # "none" THEN SetRes(t.err, t.why, self, t.pton) ELSE t :
            t \in {buildTemp(name, defport, nullgt)}})

\* SockAddr::SockAddr(const char *address, unsigned short port)
SockAddr_name(address, p, nullgt) ==
    setAddress(SockAddr_af(AF_UNSPEC).val, address, p, nullgt)

(***************************************************************************)
(* SockAddr::SockAddr(const sockaddr *addr): a native record is            *)
(* [family, port, sin_addr, sin6_addr, scope_id]; Null is the null pointer.*)
(***************************************************************************)
Null == [family |-> -1]

SockAddr_sockaddr(addr) ==
    LET base == SockAddr_af(IF addr # Null THEN addr.family ELSE AF_UNSPEC)
    IN IF base.err # "none" THEN base
       ELSE IF addr = Null THEN base
       ELSE IF base.val.family = AF_INET
            THEN Ok([ZeroStore EXCEPT !.family = AF_INET, !.port = addr.port,
                                      !.sin_addr = addr.sin_addr])
       ELSE IF base.val.family = AF_INET6
            THEN Ok([ZeroStore EXCEPT !.family = AF_INET6, !.port = addr.port,
                                      !.sin6_addr = addr.sin6_addr,
                                      !.scope_id = addr.scope_id])
       ELSE base

(***************************************************************************)
(* The predicates.                                                         *)
(***************************************************************************)
Any4 == <<0, 0, 0, 0>>
Loopback4 == <<127, 0, 0, 1>>
Any6 == Zeros(16)
Loopback6 == [i \in 1..16 |-> IF i = 16 THEN 1 ELSE 0]

\* SockAddr::isAny()
isAny(self) ==
    IF self.family = AF_INET THEN self.sin_addr = Any4
    ELSE IF self.family = AF_INET6 THEN self.sin6_addr = Any6
    ELSE FALSE

\* SockAddr::isLO()
isLO(self) ==
    IF self.family = AF_INET THEN self.sin_addr = Loopback4
    ELSE IF self.family = AF_INET6 THEN self.sin6_addr = Loopback6
    ELSE FALSE

\* SockAddr::isMCast()
isMCast(self) ==
    IF self.family = AF_INET THEN self.sin_addr[1] \div 16 = 14
    ELSE IF self.family = AF_INET6 THEN self.sin6_addr[1] = 255
    ELSE FALSE

\* (a map4to6 that forgets the port)
map4to6_drops_port(self) ==
    IF family(self) = AF_INET
    THEN Ok([ZeroStore EXCEPT
               !.family = AF_INET6,
               !.sin6_addr = [i \in 1..16 |->
                                IF i \in {11, 12} THEN 255
                                ELSE IF i >= 13 THEN self.sin_addr[i - 12]
                                ELSE 0]])
    ELSE IF family(self) = AF_INET6 THEN Ok(self)
    ELSE Throw("logic_error", "Invalid address family", ZeroStore)

(***************************************************************************)
(* SockAddr::map4to6()                                                     *)
(***************************************************************************)
map4to6(self) ==
    IF family(self) = AF_INET
    THEN Ok([ZeroStore EXCEPT
               !.family = AF_INET6,
               !.sin6_addr = [i \in 1..16 |->
                                IF i \in {11, 12} THEN 255
                                ELSE IF i >= 13 THEN self.sin_addr[i - 12]
                                ELSE 0],
               !.port = self.port])
    ELSE IF family(self) = AF_INET6 THEN Ok(self)
    ELSE Throw("logic_error", "Invalid address family", ZeroStore)

(***************************************************************************)
(* SockAddr::any(int af, unsigned port), SockAddr::loopback(af, port).     *)
(* htons() takes the low 16 bits of the unsigned port.                     *)
(***************************************************************************)
htons(p) == p % Limb

any(af, p) ==
    IF SockAddr_af(af).err # "none" THEN SockAddr_af(af)
    ELSE IF af = AF_INET
    THEN Ok([SockAddr_af(af).val EXCEPT !.sin_addr = Any4, !.port = htons(p)])
    ELSE IF af = AF_INET6
    THEN Ok([SockAddr_af(af).val EXCEPT !.sin6_addr = Any6, !.port = htons(p)])
    ELSE Throw("invalid_argument", "Unsupported address family", ZeroStore)

loopback(af, p) ==
    IF SockAddr_af(af).err # "none" THEN SockAddr_af(af)
    ELSE IF af = AF_INET
    THEN Ok([SockAddr_af(af).val EXCEPT !.sin_addr = Loopback4, !.port = htons(p)])
    ELSE IF af = AF_INET6
    THEN Ok([SockAddr_af(af).val EXCEPT !.sin6_addr = Loopback6, !.port = htons(p)])
    ELSE Throw("invalid_argument", "Unsupported address family", ZeroStore)

(***************************************************************************)
(* operator<<(std::ostream&, const SockAddr&) on a stream in its default   *)
(* (decimal) state.  [out, uninit]: the characters written, and whether    *)
(* some of them were read from a conversion buffer nothing had filled.     *)
(* envfail: the platform's converter refuses.  garbage: what an unfilled   *)
(* buffer holds, as a C string.                                            *)
(***************************************************************************)
Placeholder == <<"<", "?", "?", "?", ">">>

PortSuffix(p) == IF p # 0 THEN <<":">> \o FmtDec(p) ELSE <<>>

\* (a formatter that puts the scope and the port inside the brackets)
Format6_inside(addr, envfail, garbage) ==
    [out |-> <<"[">> \o inet_ntop6(addr.sin6_addr)
             \o (IF addr.scope_id # 0 THEN <<"%">> \o FmtDec(addr.scope_id) ELSE <<>>)
             \o PortSuffix(addr.port) \o <<"]">>,
     uninit |-> FALSE]

Format6(addr, envfail, garbage) ==
    Only({[out |-> (IF r.ok THEN <<"[">> \o r.text \o <<"]">> ELSE Placeholder)
                   \o (IF addr.scope_id # 0 THEN <<"%">> \o FmtDec(addr.scope_id)
                       ELSE <<>>)
                   \o PortSuffix(addr.port),
           uninit |-> FALSE] :
            r \in {evutil_inet_ntop(AF_INET6, addr.sin6_addr, INET6_ADDRSTRLEN + 1,
                                    envfail)}})

Format4(addr, envfail, garbage) ==
    Only({[out |-> (IF r.ok THEN r.text ELSE Placeholder \o garbage)
                   \o PortSuffix(addr.port),
           uninit |-> ~r.ok] :
            r \in {evutil_inet_ntop(AF_INET, addr.sin_addr, INET_ADDRSTRLEN + 1,
                                    envfail)}})

Format(addr, envfail, garbage) ==
    IF addr.family = AF_INET THEN Format4(addr, envfail, garbage)
    ELSE IF addr.family = AF_INET6 THEN Format6(addr, envfail, garbage)
    ELSE IF addr.family = AF_UNSPEC THEN [out |-> <<"<", ">">>, uninit |-> FALSE]
    ELSE [out |-> Placeholder, uninit |-> FALSE]

\* (a tostring that leaves the port out)
tostring_no_port(self, envfail, garbage) ==
    Format([self EXCEPT !.port = 0], envfail, garbage).out

\* SockAddr::tostring()
tostring(self, envfail, garbage) == Format(self, envfail, garbage).out

(***************************************************************************)
(* The inputs of the model.                                                *)
(***************************************************************************)
\* the scope ids of native IPv6 records handed to the constructor: 0..MaxScope
MaxScope == 1
\* port text of up to MaxPortDigits nines (20 nines do not fit 64 bits)
MaxPortDigits == 20

T_1234 == <<"1", ".", "2", ".", "3", ".", "4">>
T_lo4 == <<"1", "2", "7", ".", "0", ".", "0", ".", "1">>
T_123 == <<"1", ".", "2", ".", "3">>
T_lo6 == <<":", ":", "1">>
T_mc6 == <<"f", "f", "0", "2", ":", ":", "1">>
T_bad6 == <<"1", ":", ":", "2", ":", ":", "3">>
\* as many characters as scratch has bytes: one too many
T_long == [i \in 1..SizeofScratch |-> "1"]
Nines(n) == [i \in 1..n |-> "9"]

V4Texts == {T_1234, T_lo4, T_123}
V6Texts == {T_lo6, T_mc6, T_bad6}

PortTexts ==
    { <<>>, <<"0">>, <<"8", "0">>, <<"6", "5", "5", "3", "5">>,
      <<"6", "5", "5", "3", "6">>, Nines(5), Nines(MaxPortDigits),
      <<"-", "1">>, <<"+", "8", "0">>, <<" ", "8", "0">>, <<"8", "0", " ">>,
      <<"8", "0", "x">>, <<"0", "x", "5", "0">>, <<"0", "1", "2", "0">>,
      <<"0", "8">> }

FewPortTexts == { <<>>, <<"8", "0">>, Nines(5), <<"8", "0", "x">> }

\* text before '[' and between ']' and the port's ':'
Junk == { <<>>, <<"x">> }

P_80 == <<"8", "0">>

Names ==
    \* a bare literal
    V4Texts \cup V6Texts \cup {<<>>, <<"<", ">">>, T_long}
    \* literal ':' port
    \cup {T_1234 \o <<":">> \o pt : pt \in PortTexts}
    \cup {a \o <<":">> \o P_80 : a \in {T_lo4, T_123, T_long}}
    \* a bare IPv6 literal with what looks like a port
    \cup {T_lo6 \o <<":">> \o P_80}
    \* brackets, with and without a port, with and without junk
    \cup {<<"[">> \o a \o <<"]">> : a \in V6Texts \cup {T_1234, T_long}}
    \cup {pre \o <<"[">> \o T_lo6 \o <<"]">> \o mid : pre \in Junk, mid \in Junk}
    \cup {pre \o <<"[">> \o T_lo6 \o <<"]">> \o mid \o <<":">> \o pt :
            pre \in Junk, mid \in Junk, pt \in FewPortTexts}
    \cup {<<"[">> \o T_mc6 \o <<"]", ":">> \o P_80 \o <<":">> \o P_80}
    \cup {<<"[", "]">>, <<"[", "1", "]">>, <<"[", "]", ":", "8", "0">>}
    \* one bracket without the other, and the pair the wrong way round
    \cup {<<"[">> \o a : a \in {T_lo6, T_1234}}
    \cup {a \o <<"]">> : a \in {T_lo6, T_1234}}
    \cup {<<"[">> \o T_lo6 \o <<":">> \o P_80, T_lo6 \o <<"]", ":">> \o P_80}
    \cup {<<"]">> \o T_lo6 \o <<"[">>, <<"[">>, <<"]">>}

\* the texts handed to the constructor
CtorNames ==
    { T_1234, T_lo6, T_1234 \o <<":">> \o P_80, T_1234 \o <<":">> \o Nines(5),
      <<"[">> \o T_lo6 \o <<"]", ":">> \o P_80, <<"[">> \o T_lo6,
      T_long \o <<":">> \o P_80, <<"[">> \o T_long \o <<"]">>, T_123,
      T_1234 \o <<":", "8", "0", "x">> }

\* `lastc > closeb` with lastc null has no specified result; any other
\* comparison of the two has one
NullGt(name) == IF strrchr(name, ":") = 0 THEN BOOLEAN ELSE {FALSE}

\* the calls of setAddress the model makes: <<name, nullgt>>
NameCalls == {c \in Names \X BOOLEAN : c[2] \in NullGt(c[1])}
CtorCalls == {c \in NameCalls : c[1] \in CtorNames}

DefPorts == {0, 5075}
SetPorts == {0, 80}
\* `unsigned port` of any()/loopback(): 65616 = 65536 + 80
AnyPorts == {0, 80, 65616}
Families == {AF_UNSPEC, AF_INET, AF_INET6, AF_OTHER}

B_1234 == <<1, 2, 3, 4>>
B_mc4 == <<224, 0, 0, 1>>
B_ll6 == [i \in 1..16 |-> IF i = 1 THEN 254 ELSE IF i = 2 THEN 128
                          ELSE IF i = 16 THEN 1 ELSE 0]

\* the native records handed to SockAddr(const sockaddr*)
Natives ==
    {Null, [ZeroStore EXCEPT !.family = AF_UNSPEC, !.port = 80],
           [ZeroStore EXCEPT !.family = AF_OTHER, !.port = 80]}
    \cup {[ZeroStore EXCEPT !.family = AF_INET, !.port = 80, !.sin_addr = b] :
            b \in {B_1234, B_mc4}}
    \cup {[ZeroStore EXCEPT !.family = AF_INET6, !.port = p, !.sin6_addr = B_ll6,
                            !.scope_id = sc] : p \in {0, 80}, sc \in 0..MaxScope}

\* what a conversion buffer nothing has filled may hold
Garbage == { <<>>, <<"#">> }

(***************************************************************************)
(* SigInt: the process-wide state its constructor, destructor and signal   *)
(* handler share.                                                          *)
(*   thesig   the atomic pointer, 0 for nullptr, else the instance         *)
(*   pc       where the constructor or destructor of each instance stands  *)
(*   handler  whether the instance's handler member is alive               *)
(*   prev     the instance's prevINT and prevTERM                          *)
(*   disp     the disposition of SIGINT and SIGTERM                        *)
(*   hpc, hsig  where a running _handle stands, and its local `sig`        *)
(*   thrown   whether the instance's last construction threw               *)
(*   deadcall whether _handle has called the handler of an instance whose  *)
(*            handler is not alive                                         *)
(***************************************************************************)
MaxInst == 2
Inst == 1..MaxInst
Signals == {"SIGINT", "SIGTERM"}

SigIdle ==
    [thesig |-> 0,
     pc |-> [i \in Inst |-> "none"],
     handler |-> [i \in Inst |-> FALSE],
     prev |-> [i \in Inst |-> [g \in Signals |-> "SIG_DFL"]],
     disp |-> [g \in Signals |-> "SIG_DFL"],
     hpc |-> [g \in Signals |-> "idle"],
     hsig |-> [g \in Signals |-> 0],
     thrown |-> [i \in Inst |-> FALSE],
     deadcall |-> FALSE]

(***************************************************************************)
(* The state: one SockAddr object (`store`, its union), the record of the  *)
(* last operation applied (its arguments and what it gave back), and the   *)
(* state of SigInt.                                                        *)
(***************************************************************************)
VARIABLES store, last, sig

vars == <<store, last, sig>>

Blank ==
    [op |-> "init", name |-> <<>>, defport |-> 0, err |-> "none", why |-> "",
     pton |-> FALSE, out |-> <<>>, out2 |-> <<>>, uninit |-> FALSE,
     envfail |-> FALSE, ret |-> ZeroStore, flags |-> <<>>, num |-> <<>>]

\* SockAddr(): the default argument of SockAddr(int af) is AF_UNSPEC
Init ==
    /\ store = SockAddr_af(AF_UNSPEC).val
    /\ last = Blank
    /\ sig = SigIdle

\* a constructor that throws leaves no object: the one at hand stays
Constructed(opname, made) ==
    \E r \in {made} :
        /\ store' = IF r.err = "none" THEN r.val ELSE store
        /\ last' = [Blank EXCEPT !.op = opname, !.err = r.err, !.why = r.why,
                                 !.ret = r.val]
        /\ UNCHANGED sig

\* a = SockAddr(af)
Construct_af ==
    \E af \in Families : Constructed("SockAddr_af", SockAddr_af(af))

\* a = SockAddr(addr)
Construct_sockaddr ==
    \E addr \in Natives : Constructed("SockAddr_sockaddr", SockAddr_sockaddr(addr))

\* a = SockAddr::any(af, port)
Construct_any ==
    \E af \in Families, p \in AnyPorts : Constructed("any", any(af, p))

\* a = SockAddr::loopback(af, port)
Construct_loopback ==
    \E af \in Families, p \in AnyPorts : Constructed("loopback", loopback(af, p))

\* a = SockAddr(name, port)
Construct_name ==
    \E c \in CtorCalls, p \in DefPorts :
        \E r \in {SockAddr_name(c[1], p, c[2])} :
           /\ store' = IF r.err = "none" THEN r.val ELSE store
           /\ last' = [Blank EXCEPT !.op = "SockAddr_name", !.name = c[1],
                                    !.defport = p, !.err = r.err, !.why = r.why,
                                    !.pton = r.pton, !.ret = r.val]
           /\ UNCHANGED sig

\* a.setAddress(name, defport)
SetAddress ==
    \E c \in NameCalls, p \in DefPorts :
        \E r \in {setAddress(store, c[1], p, c[2])} :
           /\ store' = r.val
           /\ last' = [Blank EXCEPT !.op = "setAddress", !.name = c[1],
                                    !.defport = p, !.err = r.err, !.why = r.why,
                                    !.pton = r.pton]
           /\ UNCHANGED sig

\* a.setPort(p)
SetPort ==
    \E p \in SetPorts :
        \E r \in {setPort(store, p)} :
           /\ store' = r.val
           /\ last' = [Blank EXCEPT !.op = "setPort", !.defport = p,
                                    !.err = r.err, !.why = r.why]
           /\ UNCHANGED sig

\* a.isAny(), a.isLO(), a.isMCast()
Predicates ==
    /\ store' = store
    /\ last' = [Blank EXCEPT !.op = "predicates",
                             !.flags = <<isAny(store), isLO(store), isMCast(store)>>]
    /\ UNCHANGED sig

\* b = a.map4to6()
Map4to6 ==
    \E r \in {map4to6(store)} :
       /\ store' = store
       /\ last' = [Blank EXCEPT !.op = "map4to6", !.err = r.err, !.why = r.why,
                                !.ret = r.val]
       /\ UNCHANGED sig

\* strm << a
FormatAddr ==
    \E envfail \in BOOLEAN, garbage \in Garbage :
        \E r \in {Format(store, envfail, garbage)} :
           /\ store' = store
           /\ last' = [Blank EXCEPT !.op = "format", !.out = r.out,
                                    !.uninit = r.uninit, !.envfail = envfail]
           /\ UNCHANGED sig

\* SockAddr(a.tostring(), p).tostring(), with a converter that works
RoundTrip ==
    \E p \in DefPorts, text \in {tostring(store, FALSE, <<>>)} :
        \E r \in {SockAddr_name(text, p, FALSE)} :
           /\ store' = store
           /\ last' = [Blank EXCEPT
                         !.op = "roundtrip", !.name = text, !.defport = p,
                         !.err = r.err, !.why = r.why, !.pton = r.pton,
                         !.out = text,
                         !.out2 = IF r.err = "none" THEN tostring(r.val, FALSE, <<>>)
                                  ELSE <<>>,
                         !.ret = r.val]
           /\ UNCHANGED sig

Next ==
    \/ Construct_af
    \/ Construct_sockaddr
    \/ Construct_any
    \/ Construct_loopback
    \/ Construct_name
    \/ SetAddress
    \/ SetPort
    \/ Predicates
    \/ Map4to6
    \/ FormatAddr
    \/ RoundTrip

Spec == Init /\ [][Next]_vars

(***************************************************************************)
(* The strict numeric parsers, applied to a text: a numeral, or something  *)
(* that is none, followed by a tail.                                       *)
(***************************************************************************)
CommonNumerals ==
    { <<"0">>,
      <<"4", "2">>,
      <<"-", "7">>,
      <<"+", "7">>,
      <<" ", "4", "2">>,
      <<"0", "1", "7">>,
      <<>>,
      <<"x">>,
      <<"-">> }

\* 2^63 - 1, 2^63, -2^63, -2^63 - 1, 2^64 - 1, 2^64
IntNumerals ==
    { <<"0", "x", "1", "F">>,
      <<"9", "2", "2", "3", "3", "7", "2", "0", "3", "6", "8", "5", "4", "7", "7", "5", "8", "0", "7">>,
      <<"9", "2", "2", "3", "3", "7", "2", "0", "3", "6", "8", "5", "4", "7", "7", "5", "8", "0", "8">>,
      <<"-", "9", "2", "2", "3", "3", "7", "2", "0", "3", "6", "8", "5", "4", "7", "7", "5", "8", "0", "8">>,
      <<"-", "9", "2", "2", "3", "3", "7", "2", "0", "3", "6", "8", "5", "4", "7", "7", "5", "8", "0", "9">>,
      <<"1", "8", "4", "4", "6", "7", "4", "4", "0", "7", "3", "7", "0", "9", "5", "5", "1", "6", "1", "5">>,
      <<"1", "8", "4", "4", "6", "7", "4", "4", "0", "7", "3", "7", "0", "9", "5", "5", "1", "6", "1", "6">> }

DblNumerals ==
    { <<"1", ".", "5">>,
      <<"-", "2", ".", "5">>,
      <<".", "5">>,
      <<"5", ".">>,
      <<"1", "e", "3">>,
      <<"1", ".", "5", "e", "-", "2">>,
      <<"1", "e">>,
      <<"1", "e", "9", "9", "9">>,
      <<"1", "e", "-", "9", "9", "9">>,
      <<".">> }

NumTails == { <<>>, <<" ">>, <<" ", "\n">>, <<"x">>, <<" ", "x">>, <<",">> }

NumTexts ==
    {n \o t : n \in CommonNumerals \cup IntNumerals \cup DblNumerals, t \in NumTails}

\* the decimal numerals of a size the model of stod takes
DoubleTexts == {n \o t : n \in CommonNumerals \cup DblNumerals, t \in NumTails}

InitParse ==
    /\ store = SockAddr_af(AF_UNSPEC).val
    /\ \E t \in NumTexts : last = [Blank EXCEPT !.op = "text", !.name = t]
    /\ sig = SigIdle

Parsed(opname, r) ==
    /\ last' = [Blank EXCEPT !.op = opname, !.name = last.name, !.err = r.err,
                             !.num = IF r.err = "none" THEN <<r.val>> ELSE <<>>]
    /\ UNCHANGED <<store, sig>>

\* parseTo<double>(s)
ParseTo_double ==
    /\ last.name \in DoubleTexts
    /\ \E r \in {parseTo_double(last.name)} : Parsed("parseTo_double", r)

\* parseTo<uint64_t>(s)
ParseTo_uint64 ==
    \E r \in {parseTo_uint64(last.name)} : Parsed("parseTo_uint64", r)

\* parseTo<int64_t>(s)
ParseTo_int64 ==
    \E r \in {parseTo_int64(last.name)} : Parsed("parseTo_int64", r)

NextParse ==
    \/ ParseTo_double
    \/ ParseTo_uint64
    \/ ParseTo_int64

SpecParse == InitParse /\ [][NextParse]_vars

(***************************************************************************)
(* SigInt: construction and destruction of the instances by any threads,   *)
(* and delivery of the two signals, one atomic access or call at a step.   *)
(***************************************************************************)
InitSig ==
    /\ store = SockAddr_af(AF_UNSPEC).val
    /\ last = Blank
    /\ sig = SigIdle

SigStep(next) ==
    /\ sig' = next
    /\ UNCHANGED <<store, last>>

\* SigInt::SigInt: the member initialiser handler(std::move(handler))
Ctor_begin(i) ==
    /\ sig.pc[i] = "none"
    /\ SigStep([sig EXCEPT !.pc[i] = "ctor_cas", !.handler[i] = TRUE,
                           !.thrown[i] = FALSE])

\* thesig.compare_exchange_strong(expect, this), and the throw when it fails
Ctor_cas(i) ==
    /\ sig.pc[i] = "ctor_cas"
    /\ SigStep(IF sig.thesig = 0
               THEN [sig EXCEPT !.thesig = i, !.pc[i] = "ctor_int"]
               ELSE [sig EXCEPT !.pc[i] = "none", !.handler[i] = FALSE,
                                !.thrown[i] = TRUE])

\* prevINT = signal(SIGINT, &_handle)
Ctor_sigint(i) ==
    /\ sig.pc[i] = "ctor_int"
    /\ SigStep([sig EXCEPT !.prev[i]["SIGINT"] = sig.disp["SIGINT"],
                           !.disp["SIGINT"] = "_handle",
                           !.pc[i] = "ctor_term"])

\* prevTERM = signal(SIGTERM, &_handle)
Ctor_sigterm(i) ==
    /\ sig.pc[i] = "ctor_term"
    /\ SigStep([sig EXCEPT !.prev[i]["SIGTERM"] = sig.disp["SIGTERM"],
                           !.disp["SIGTERM"] = "_handle",
                           !.pc[i] = "alive"])

\* SigInt::~SigInt: signal(SIGINT, prevINT)
Dtor_sigint(i) ==
    /\ sig.pc[i] = "alive"
    /\ SigStep([sig EXCEPT !.disp["SIGINT"] = sig.prev[i]["SIGINT"],
                           !.pc[i] = "dtor_term"])

\* signal(SIGTERM, prevTERM)
Dtor_sigterm(i) ==
    /\ sig.pc[i] = "dtor_term"
    /\ SigStep([sig EXCEPT !.disp["SIGTERM"] = sig.prev[i]["SIGTERM"],
                           !.pc[i] = "dtor_store"])

\* thesig.store(nullptr)
Dtor_store(i) ==
    /\ sig.pc[i] = "dtor_store"
    /\ SigStep([sig EXCEPT !.thesig = 0, !.pc[i] = "dtor_end"])

\* the end of the destructor: the members go, handler among them
Dtor_end(i) ==
    /\ sig.pc[i] = "dtor_end"
    /\ SigStep([sig EXCEPT !.pc[i] = "none", !.handler[i] = FALSE,
                           !.prev[i] = [g \in Signals |-> "SIG_DFL"]])

\* a signal whose disposition is _handle is delivered: SigInt::_handle starts
Handle_begin(g) ==
    /\ sig.hpc[g] = "idle"
    /\ sig.disp[g] = "_handle"
    /\ SigStep([sig EXCEPT !.hpc[g] = "load"])

\* auto sig = thesig.load(); if(!sig) return;
Handle_load(g) ==
    /\ sig.hpc[g] = "load"
    /\ SigStep(IF sig.thesig = 0
               THEN [sig EXCEPT !.hpc[g] = "idle"]
               ELSE [sig EXCEPT !.hpc[g] = "call", !.hsig[g] = sig.thesig])

\* sig->handler()
Handle_call(g) ==
    /\ sig.hpc[g] = "call"
    /\ SigStep([sig EXCEPT !.hpc[g] = "idle", !.hsig[g] = 0,
                           !.deadcall = sig.deadcall \/ ~sig.handler[sig.hsig[g]]])

NextSig ==
    \/ \E i \in Inst : Ctor_begin(i)
    \/ \E i \in Inst : Ctor_cas(i)
    \/ \E i \in Inst : Ctor_sigint(i)
    \/ \E i \in Inst : Ctor_sigterm(i)
    \/ \E i \in Inst : Dtor_sigint(i)
    \/ \E i \in Inst : Dtor_sigterm(i)
    \/ \E i \in Inst : Dtor_store(i)
    \/ \E i \in Inst : Dtor_end(i)
    \/ \E g \in Signals : Handle_begin(g)
    \/ \E g \in Signals : Handle_load(g)
    \/ \E g \in Signals : Handle_call(g)

SpecSig == InitSig /\ [][NextSig]_vars

(***************************************************************************)
(* What the properties below are stated with: readings of a name that do   *)
(* not go through setAddress.                                              *)
(***************************************************************************)
TextOps == {"setAddress", "SockAddr_name"}

Thrown == {"runtime_error", "NoConvert", "logic_error"}

HasChar(s, c) == \E i \in 1..Len(s) : s[i] = c

CountChar(s, c) == Cardinality({i \in 1..Len(s) : s[i] = c})

LastPos(s, c) == CHOOSE i \in 1..Len(s) : s[i] = c /\ \A j \in (i + 1)..Len(s) : s[j] # c

NoBracket(n) == ~HasChar(n, "[") /\ ~HasChar(n, "]")

BracketPair(n) == HasChar(n, "[") /\ HasChar(n, "]")

OneBracket(n) == HasChar(n, "[") # HasChar(n, "]")

\* whether a port text is extracted from n
HasPortText(n) ==
    \/ NoBracket(n) /\ CountChar(n, ":") = 1
    \/ BracketPair(n) /\ HasChar(n, ":") /\ LastPos(n, ":") > LastPos(n, "]")

\* the extracted port text: what follows the last colon
PortTextOf(n) == SubSeq(n, LastPos(n, ":") + 1, Len(n))

AllDigits(t) == Len(t) > 0 /\ \A i \in 1..Len(t) : IsDigit(t[i])

RECURSIVE DecValue(_)
DecValue(t) == IF Len(t) = 0 THEN 0
               ELSE 10 * DecValue(SubSeq(t, 1, Len(t) - 1)) + DigitVal(t[Len(t)])

\* a decimal text that denotes a number above 65535
ExceedsUShort(t) ==
    /\ AllDigits(t)
    /\ t[1] # "0"
    /\ Len(t) > 5 \/ (Len(t) = 5 /\ DecValue(t) > 65535)

\* the family the shape of an accepted name calls for
ShapeFamily(n) ==
    IF NoBracket(n) /\ CountChar(n, ":") <= 1 THEN AF_INET ELSE AF_INET6

\* the port an accepted name and default give
ShapePort(n, defport) ==
    IF HasPortText(n) THEN ToUShort(parseTo_uint64(PortTextOf(n)).val) ELSE defport

\* the value a call on a text was made on, after the call
Target == IF last.op = "SockAddr_name" THEN last.ret ELSE store

(***************************************************************************)
(* C1: an input whose port text denotes a number above 65535 makes the     *)
(* text constructor and setAddress fail.  The code does not do this: the   *)
(* 64 bit number is cut down to the unsigned short setPort takes.          *)
(***************************************************************************)
C1_OversizedPortFails ==
    (/\ last.op \in TextOps
     /\ HasPortText(last.name)
     /\ ExceedsUShort(PortTextOf(last.name)))
    => last.err \in Thrown

(***************************************************************************)
(* C2: formatting a value, parsing that text and formatting again gives    *)
(* the same text, for every value.  This fails for an unspecified value,   *)
(* for a value with a scope, and for port 0 under a non-zero default.      *)
(***************************************************************************)
C2_RoundTripEveryValue ==
    last.op = "roundtrip" => last.err = "none" /\ last.out2 = last.out

(***************************************************************************)
(* C2, as it holds: for an IPv4 or IPv6 value with scope 0 the text parses *)
(* under any default port p to the same family and address, scope 0, and   *)
(* the value's port, or p where the value's port is 0; so the second text  *)
(* is the first whenever the value's port is not 0 or p is 0.              *)
(***************************************************************************)
C2_RoundTrip ==
    (/\ last.op = "roundtrip"
     /\ store.family \in {AF_INET, AF_INET6}
     /\ store.scope_id = 0)
    => /\ last.err = "none"
       /\ last.ret = [store EXCEPT !.port = IF store.port # 0 THEN store.port
                                            ELSE last.defport]
       /\ (store.port # 0 \/ last.defport = 0) => last.out2 = last.out
       /\ (store.port = 0 /\ last.defport # 0)
            => last.out2 = last.out \o PortSuffix(last.defport)

C2_Witness ==
    /\ last.op = "roundtrip"
    /\ store.family = AF_INET6
    /\ store.scope_id = 0
    /\ store.port # 0
    /\ last.defport # 0
    /\ last.defport # store.port
    /\ last.out2 = last.out

(***************************************************************************)
(* C3: a name with exactly one of '[' and ']' fails as mismatched          *)
(* brackets, whatever its colons, before the address converter is called.  *)
(***************************************************************************)
C3_MismatchedBrackets ==
    (last.op \in TextOps /\ OneBracket(last.name))
    => /\ last.err = "runtime_error"
       /\ last.why = "IPv6 with mismatched brackets"
       /\ ~last.pton

C3_Witness ==
    /\ last.op = "setAddress"
    /\ OneBracket(last.name)
    /\ CountChar(last.name, ":") >= 2
    /\ last.err = "runtime_error"
    /\ ~last.pton

(***************************************************************************)
(* C4: on success the family and the port follow from where the colons     *)
(* and brackets are: no bracket and at most one colon is IPv4, anything    *)
(* else IPv6; the port is the number of the text after the single colon    *)
(* or after the colon behind the closing bracket, as an unsigned short,    *)
(* and the default port exactly when there is no such text.                *)
(***************************************************************************)
C4_ShapeDecides ==
    (last.op \in TextOps /\ last.err = "none")
    => /\ ~OneBracket(last.name)
       /\ Target.family = ShapeFamily(last.name)
       /\ Target.port = ShapePort(last.name, last.defport)
       /\ (/\ HasPortText(last.name)
           /\ AllDigits(PortTextOf(last.name))
           /\ PortTextOf(last.name)[1] # "0"
           /\ ~ExceedsUShort(PortTextOf(last.name)))
            => Target.port = DecValue(PortTextOf(last.name))

C4_Witness ==
    /\ last.op = "setAddress"
    /\ last.err = "none"
    /\ BracketPair(last.name)
    /\ HasPortText(last.name)
    /\ store.family = AF_INET6
    /\ store.port = 80
    /\ last.defport = 5075

(***************************************************************************)
(* C5: every accepted name is ipv4, ipv4:port, ipv6, [ipv6] or             *)
(* [ipv6]:port, with a port of unsigned digits worth 0..65535.  The code   *)
(* accepts more: text around the brackets, signs and leading blanks in     *)
(* the port, numbers above 65535.                                          *)
(***************************************************************************)
IsPortText(t) ==
    /\ Len(t) > 0
    /\ IsDigit(t[1])
    /\ parseTo_uint64(t).err = "none"
    /\ FitsUShort(parseTo_uint64(t).val)

InGrammar(n) ==
    \/ inet_pton4(n).ok
    \/ inet_pton6(n).ok
    \/ \E i \in 1..Len(n) :
          /\ n[i] = ":"
          /\ inet_pton4(SubSeq(n, 1, i - 1)).ok
          /\ IsPortText(SubSeq(n, i + 1, Len(n)))
    \/ /\ Len(n) > 0
       /\ n[1] = "["
       /\ \E j \in 2..Len(n) :
             /\ n[j] = "]"
             /\ inet_pton6(SubSeq(n, 2, j - 1)).ok
             /\ \/ j = Len(n)
                \/ /\ j < Len(n)
                   /\ n[j + 1] = ":"
                   /\ IsPortText(SubSeq(n, j + 2, Len(n)))

C5_AcceptedIsInGrammar ==
    (last.op \in TextOps /\ last.err = "none") => InGrammar(last.name)

(***************************************************************************)
(* C6: when setAddress or the text constructor throws, the object it was   *)
(* called on has the family, address, scope and port it had before: the    *)
(* existing object for setAddress, the fresh unspecified one for the       *)
(* constructor.                                                            *)
(***************************************************************************)
C6_FailureChangesNothing ==
    [][/\ (last'.op = "setAddress" /\ last'.err \in Thrown) => store' = store
       /\ (last'.op = "SockAddr_name" /\ last'.err \in Thrown)
            => last'.ret = SockAddr_af(AF_UNSPEC).val /\ store' = store]_vars

C6_Witness ==
    /\ last.op = "setAddress"
    /\ last.err = "NoConvert"
    /\ last.pton
    /\ store.family = AF_INET6
    /\ store.port # 0
    /\ ShapeFamily(last.name) = AF_INET

(***************************************************************************)
(* C7: across the public operations the family of a value never changes    *)
(* and only the port does.  setAddress does not keep to this: it replaces  *)
(* the whole value.                                                        *)
(***************************************************************************)
Operations == {"setAddress", "setPort", "predicates", "map4to6", "format"}

SameButPort(a, b) ==
    /\ a.family = b.family
    /\ a.sin_addr = b.sin_addr
    /\ a.sin6_addr = b.sin6_addr
    /\ a.scope_id = b.scope_id

C7_FamilyFixedEverywhere ==
    [][last'.op \in Operations => SameButPort(store', store)]_vars

(***************************************************************************)
(* C7, as it holds: setPort, the predicates, map4to6 and formatting leave  *)
(* family, address and scope alone, and of these only setPort changes the  *)
(* port, only of an IPv4 or IPv6 value and to its argument; setAddress     *)
(* replaces the whole value when it succeeds, family included, by one of   *)
(* scope 0.                                                                *)
(***************************************************************************)
C7_OnlySetAddressReplaces ==
    [][/\ last'.op \in Operations \ {"setAddress"}
            => /\ SameButPort(store', store)
               /\ store'.port # store.port
                    => /\ last'.op = "setPort"
                       /\ store.family \in {AF_INET, AF_INET6}
                       /\ store'.port = last'.defport
       /\ (last'.op = "setPort" /\ store.family \notin {AF_INET, AF_INET6})
            => last'.err = "logic_error" /\ store' = store
       /\ (last'.op = "setAddress" /\ last'.err = "none")
            => /\ store'.family = ShapeFamily(last'.name)
               /\ store'.scope_id = 0]_vars

C7_Witness ==
    /\ last.op = "setPort"
    /\ last.err = "none"
    /\ last.defport = 80
    /\ store.family = AF_INET6
    /\ store.scope_id # 0
    /\ store.port = 80

(***************************************************************************)
(* C8: with a working converter, IPv4 prints as addr or addr:port, IPv6    *)
(* as [addr], then %scope when the scope is not 0, then :port; the port    *)
(* is left out when 0; an unspecified value prints as <> and any other     *)
(* family as <???>.                                                        *)
(***************************************************************************)
Shape(v) ==
    IF v.family = AF_INET
    THEN inet_ntop4(v.sin_addr)
         \o (IF v.port = 0 THEN <<>> ELSE <<":">> \o FmtDec(v.port))
    ELSE IF v.family = AF_INET6
    THEN <<"[">> \o inet_ntop6(v.sin6_addr) \o <<"]">>
         \o (IF v.scope_id = 0 THEN <<>> ELSE <<"%">> \o FmtDec(v.scope_id))
         \o (IF v.port = 0 THEN <<>> ELSE <<":">> \o FmtDec(v.port))
    ELSE IF v.family = AF_UNSPEC THEN <<"<", ">">>
    ELSE <<"<", "?", "?", "?", ">">>

C8_Shapes ==
    (last.op = "format" /\ ~last.envfail)
    => /\ last.out = Shape(store)
       /\ ~last.uninit
       /\ \A g \in Garbage :
             Format([store EXCEPT !.family = AF_OTHER], FALSE, g).out
               = <<"<", "?", "?", "?", ">">>

C8_Witness ==
    /\ last.op = "format"
    /\ ~last.envfail
    /\ store.family = AF_INET6
    /\ store.scope_id # 0
    /\ store.port # 0
    /\ last.out = <<"[", "f", "e", "8", "0", ":", ":", "1", "]", "%", "1", ":", "8", "0">>

(***************************************************************************)
(* C9: when the converter fails, the address part of the output is <???>   *)
(* and no unfilled buffer is read.  The IPv4 branch does read it: it       *)
(* writes <???> and then the buffer the converter did not fill.            *)
(***************************************************************************)
C9_NoUnfilledBuffer ==
    (last.op = "format" /\ last.envfail /\ store.family \in {AF_INET, AF_INET6})
    => /\ ~last.uninit
       /\ last.out = <<"<", "?", "?", "?", ">">>
                     \o (IF store.family = AF_INET6 /\ store.scope_id # 0
                         THEN <<"%">> \o FmtDec(store.scope_id) ELSE <<>>)
                     \o (IF store.port = 0 THEN <<>> ELSE <<":">> \o FmtDec(store.port))

(***************************************************************************)
(* C10: map4to6 of an IPv4 value is IPv6 with ten zero bytes, 0xFF 0xFF,   *)
(* the four address bytes, the same port and scope 0; of an IPv6 value,    *)
(* the value itself; of anything else, a throw.  The value it is called    *)
(* on stays as it was, and the image of 127.0.0.1 is not isLO.             *)
(***************************************************************************)
C10_Map4to6 ==
    [][last'.op = "map4to6"
       => /\ store' = store
          /\ store.family = AF_INET
               => /\ last'.err = "none"
                  /\ last'.ret.family = AF_INET6
                  /\ last'.ret.sin6_addr
                       = <<0, 0, 0, 0, 0, 0, 0, 0, 0, 0, 255, 255>> \o store.sin_addr
                  /\ last'.ret.port = store.port
                  /\ last'.ret.scope_id = 0
                  /\ store.sin_addr = <<127, 0, 0, 1>>
                       => isLO(store) /\ ~isLO(last'.ret)
          /\ store.family = AF_INET6 => last'.err = "none" /\ last'.ret = store
          /\ store.family \notin {AF_INET, AF_INET6}
               => last'.err = "logic_error"]_vars

C10_Witness ==
    /\ last.op = "map4to6"
    /\ last.err = "none"
    /\ store.family = AF_INET
    /\ store.sin_addr = <<127, 0, 0, 1>>
    /\ store.port = 80
    /\ last.ret.family = AF_INET6
    /\ last.ret.port = 80
    /\ ~isLO(last.ret)

(***************************************************************************)
(* C11: setPort(p) on an IPv4 or IPv6 value makes port() return p and      *)
(* leaves family, address and scope as they were; on an unspecified value  *)
(* it throws and leaves the value as it was, port() still 0.               *)
(***************************************************************************)
C11_SetPortFrame ==
    [][last'.op = "setPort"
       => /\ store.family \in {AF_INET, AF_INET6}
               => /\ last'.err = "none"
                  /\ port(store') = last'.defport
                  /\ SameButPort(store', store)
          /\ store.family = AF_UNSPEC
               => /\ last'.err = "logic_error"
                  /\ store' = store
                  /\ port(store) = 0
                  /\ port(store') = 0]_vars

C11_Witness ==
    /\ last.op = "setPort"
    /\ last.err = "none"
    /\ last.defport = 80
    /\ store.family = AF_INET6
    /\ store.sin6_addr = Loopback6
    /\ port(store) = 80


(***************************************************************************)
(* C13: each of parseTo<double>, parseTo<uint64_t> and parseTo<int64_t>    *)
(* throws NoConvert for a number followed by a character that is not       *)
(* white space, and returns the number when only white space follows it.   *)
(* parseTo<double> does not: it returns the number whatever follows.       *)
(***************************************************************************)
NumberRead(opname, t) ==
    IF opname = "parseTo_double" THEN stod(t)
    ELSE IF opname = "parseTo_uint64" THEN stoull(t)
    ELSE stoll(t)

OnlySpaceFrom(t, i) == \A j \in i..Len(t) : IsSpace(t[j])

C13_UniformlyStrict ==
    (/\ last.op \in {"parseTo_double", "parseTo_uint64", "parseTo_int64"}
     /\ NumberRead(last.op, last.name).status = "ok")
    => IF OnlySpaceFrom(last.name, NumberRead(last.op, last.name).idx + 1)
       THEN last.err = "none" /\ last.num = <<NumberRead(last.op, last.name).val>>
       ELSE last.err = "NoConvert" /\ last.num = <<>>


(***************************************************************************)
(* C12: at most one SigInt is registered at any time; a construction while *)
(* another instance is registered throws and leaves that instance, its     *)
(* handler and the signal dispositions alone; a construction that finds    *)
(* none registered succeeds, so one of several concurrent ones does and a  *)
(* new one after a destruction does; and _handle never calls the handler   *)
(* of a destroyed instance.  The last part fails: _handle loads the        *)
(* pointer and calls through it in two steps, and the destructor can run   *)
(* to its end between them.                                                *)
(***************************************************************************)
Registered(i) ==
    sig.pc[i] \in {"ctor_int", "ctor_term", "alive", "dtor_term", "dtor_store"}

OneRegistered ==
    /\ Cardinality({i \in Inst : Registered(i)}) <= 1
    /\ \A i \in Inst : Registered(i) <=> sig.thesig = i

CasDecides ==
    \A i \in Inst :
       (sig.pc[i] = "ctor_cas" /\ sig'.pc[i] # "ctor_cas")
       => /\ sig.thesig # 0
               => /\ sig'.thrown[i]
                  /\ sig'.pc[i] = "none"
                  /\ sig'.thesig = sig.thesig
                  /\ sig'.disp = sig.disp
                  /\ sig'.prev = sig.prev
                  /\ sig'.handler[sig.thesig] = sig.handler[sig.thesig]
                  /\ sig'.pc[sig.thesig] = sig.pc[sig.thesig]
          /\ sig.thesig = 0
               => /\ ~sig'.thrown[i]
                  /\ sig'.thesig = i
                  /\ sig'.pc[i] = "ctor_int"

C12_OneSigInt ==
    /\ [](OneRegistered /\ ~sig.deadcall)
    /\ [][CasDecides]_vars

=============================================================================
